---- MODULE Spec2Model ----
(***************************************************************************)
(* State-machine model of PolicyAnchoredPPO (src/ppo.py): construction,    *)
(* the learn loop (rollout collection followed by train()), the epoch /    *)
(* minibatch loop of train() with its KL early stop, the task-change       *)
(* detector and the good-policy archive.                                   *)
(*                                                                         *)
(* Numeric conventions.  Rewards and gp_threshold are in tenths (0.5 is    *)
(* 5).  A mean of a reward list is kept exact as the pair [sum, n].  KL    *)
(* values and target_kl are in quarters (0.5 is 2), so that 1.5*target_kl  *)
(* is exact.  An Optional value is a sequence: <<>> is None, <<v>> is v.   *)
(* A policy is an object reference; the only policy object the code ever   *)
(* creates is the live one, "self.policy", whose parameters are            *)
(* policy_params (the number of optimizer steps applied so far).           *)
(***************************************************************************)
EXTENDS Integers, Sequences, FiniteSets, TLC

\* ------------------------------------------------------------------ bounds
\* Training iterations of learn() explored.
MaxIter == 3
\* Episodes that can complete during one rollout.
MaxNewEpisodes == 1

\* --------------------------------------------------------- program constants
\* The step volume of the task-change trigger (1e6).
MILLION == 1000000
\* Default reward threshold of a "good" policy, 0.5, in tenths.
gp_threshold == 5
\* The numerator of the reward-gradient window, 100_000.
REWARD_GRAD_STEPS == 100000
\* Default weight of the anchor KL term, 0.1, in tenths.
anchor_pol_kl_coef == 1

\* ------------------------------------------------------------ input choices
NStepsChoices == {1, 400000, 500000}
NEnvsChoices == {1, 2}
BatchSizeChoices == {1, 500000}
TargetKlChoices == {<<>>, <<2>>}
GpKChoices == {1, 2}
NEpochsChoices == {2}
StatsWindowChoices == {2}
EpsLengthChoices == {100000}
TotalTimestepsChoices == {2000000}
EpisodeReturns == {3, 7}
KlChoices == {2, 3, 4}
\* Per-sample inputs of the policy loss, in tenths: ratios 0.0 .. MaxRatio/10,
\* advantages, clip ranges and anchor KL values.
MaxRatio == 20
AdvantageChoices == {-20, -10, -5, 0, 5, 10, 20}
ClipRangeChoices == {0, 1, 2, 3}
AnchorKlChoices == {-2, 0, 3}
\* Minibatches per epoch explored.
MaxMinibatches == 2

LivePolicy == "self.policy"
NoPolicy == "None"

VARIABLES
    cfg,                    \* the constructor's arguments
    pc,                     \* position of the program
    error,                  \* the exception that ended the program, or "none"
    warned,                 \* the truncated-minibatch warning was emitted
    num_timesteps,          \* self.num_timesteps
    iteration,              \* iterations of learn() started
    ep_info_buffer,         \* self.ep_info_buffer (returns of the last episodes)
    policy_params,          \* parameters of the live policy object
    n_updates,              \* self._n_updates
    epoch,                  \* loop variable of train()
    mb,                     \* index of the current minibatch in the epoch
    continue_training,      \* local flag of train()
    approx_kl_div,          \* local of train(): KL of the last minibatch, or None
    anchor_policy,          \* self.anchor_policy (a reference or None)
    anchor_policy_timestep, \* self.anchor_policy_timestep
    good_policies,          \* self.good_policies
    previous_rewards,       \* self.previous_rewards
    td_counter,             \* self.td_counter
    episodic_rewards,       \* self.episodic_rewards
    calls,                  \* history: the steps train() ran in this iteration
    admitted,               \* history: reward, timestep and live parameters at
                            \* every admission, oldest first
    n_updates_start,        \* history: _n_updates when train() was entered
    mb_count,               \* history: minibatches evaluated in this train()
    ratio,                  \* one sample of a minibatch: ratio, in tenths
    advantages,             \* its advantage, in tenths
    clip_range,             \* local of train(): the clip range, in tenths
    anchor_policy_kl_div,   \* local of train(): KL with the anchor, in tenths
    policy_loss             \* the sample's entry of policy_loss before .mean(),
                            \* in hundredths, or None

vars == <<cfg, pc, error, warned, num_timesteps, iteration, ep_info_buffer,
          policy_params, n_updates, epoch, mb, continue_training, approx_kl_div,
          anchor_policy, anchor_policy_timestep, good_policies,
          previous_rewards, td_counter, episodic_rewards, calls, admitted,
          n_updates_start, mb_count, ratio, advantages, clip_range,
          anchor_policy_kl_div, policy_loss>>

\* The variables of the per-sample loss computation.
sample == <<ratio, advantages, clip_range, anchor_policy_kl_div, policy_loss>>

\* ------------------------------------------------------------------ helpers
RECURSIVE Sum(_)
Sum(s) == IF s = <<>> THEN 0 ELSE Head(s) + Sum(Tail(s))

\* np.mean of a non-empty list, kept exact.
Mean(s) == [sum |-> Sum(s), n |-> Len(s)]

\* reward >= threshold for an exact mean.
RewardGEq(m, thr) == m.sum >= thr * m.n

\* deque(maxlen = w).append(x)
DequeAppend(d, x, w) ==
    LET e == Append(d, x)
    IN IF Len(e) > w THEN SubSeq(e, Len(e) - w + 1, Len(e)) ELSE e

RECURSIVE DequeExtend(_, _, _)
DequeExtend(d, xs, w) ==
    IF xs = <<>> THEN d ELSE DequeExtend(DequeAppend(d, Head(xs), w), Tail(xs), w)

SeqsUpTo(S, n) == UNION {[1..k -> S] : k \in 0..n}

\* len(list(rollout_buffer.get(batch_size))): start indices 0, b, 2b, ... below
\* n_steps * n_envs.
NumMinibatches(c) ==
    LET size == c.n_steps * c.n_envs
    IN (size + c.batch_size - 1) \div c.batch_size

\* (100_000 + eps_length) // eps_length
RewardGradWindow(c) == (REWARD_GRAD_STEPS + c.eps_length) \div c.eps_length

Min(a, b) == IF a < b THEN a ELSE b

\* The parameters each policy object holds.  No copy of a policy is ever made,
\* so the live policy is the only object.
Heap == [p \in {LivePolicy} |-> policy_params]

\* ------------------------------------------------------------- construction
AllConfigs ==
    [n_steps : NStepsChoices, n_envs : NEnvsChoices, batch_size : BatchSizeChoices,
     n_epochs : NEpochsChoices, normalize_advantage : BOOLEAN,
     target_kl : TargetKlChoices, gp_k : GpKChoices, has_env : BOOLEAN,
     stats_window_size : StatsWindowChoices, eps_length : EpsLengthChoices,
     total_timesteps : TotalTimestepsChoices]

ConfigSpace == {c \in AllConfigs : NumMinibatches(c) <= MaxMinibatches}

\* The assertions with the buffer-size one made whatever normalize_advantage is.
SanityCheck_unconditional(c) ==
    IF c.normalize_advantage /\ ~(c.batch_size > 1) THEN "AssertionError: batch_size"
    ELSE IF c.has_env /\ ~(c.n_envs * c.n_steps > 1)
         THEN "AssertionError: n_steps * n_envs"
    ELSE "ok"

\* The two assertions of __init__, in the order the code makes them.
SanityCheck(c) ==
    IF c.normalize_advantage /\ ~(c.batch_size > 1) THEN "AssertionError: batch_size"
    ELSE IF c.has_env /\ ~(c.n_envs * c.n_steps > 1 \/ ~c.normalize_advantage)
         THEN "AssertionError: n_steps * n_envs"
    ELSE "ok"

\* warnings.warn(...) when the buffer is not a multiple of the minibatch size.
TruncatedBatchWarning(c) == c.has_env /\ (c.n_envs * c.n_steps) % c.batch_size > 0

Init ==
    /\ cfg \in ConfigSpace
    /\ pc = "new"
    /\ error = "none"
    /\ warned = FALSE
    /\ num_timesteps = 0
    /\ iteration = 0
    /\ ep_info_buffer = <<>>
    /\ policy_params = 0
    /\ n_updates = 0
    /\ epoch = 0
    /\ mb = 0
    /\ continue_training = TRUE
    /\ approx_kl_div = <<>>
    /\ anchor_policy = NoPolicy
    /\ anchor_policy_timestep = -1
    /\ good_policies = <<>>
    /\ previous_rewards = <<>>
    /\ td_counter = 0
    /\ episodic_rewards = <<>>
    /\ calls = <<>>
    /\ admitted = <<>>
    /\ n_updates_start = 0
    /\ mb_count = 0
    /\ ratio = 10
    /\ advantages = 0
    /\ clip_range = 2
    /\ anchor_policy_kl_div = 0
    /\ policy_loss = <<>>

\* PolicyAnchoredPPO.__init__: the sanity checks, then the field assignments
\* (which give every field the value Init already holds).
Construct ==
    /\ pc = "new"
    /\ LET r == SanityCheck(cfg)
       IN IF r # "ok"
          THEN /\ pc' = "rejected"
               /\ error' = r
               /\ warned' = warned
          ELSE /\ pc' = IF cfg.has_env THEN "collect" ELSE "constructed"
               /\ error' = error
               /\ warned' = TruncatedBatchWarning(cfg)
    /\ UNCHANGED sample
    /\ UNCHANGED <<cfg, num_timesteps, iteration, ep_info_buffer, policy_params,
                   n_updates, epoch, mb, continue_training, approx_kl_div,
                   anchor_policy, anchor_policy_timestep, good_policies,
                   previous_rewards, td_counter, episodic_rewards, calls,
                   admitted, n_updates_start, mb_count>>

\* ---------------------------------------------------------------- learn loop
\* One pass of the loop of learn(): collect_rollouts() advances num_timesteps by
\* n_envs on each of n_steps steps and records the return of every episode that
\* completed; then train() is entered.
CollectRollouts ==
    /\ pc = "collect"
    /\ num_timesteps < cfg.total_timesteps
    /\ iteration < MaxIter
    /\ \E new \in SeqsUpTo(EpisodeReturns, MaxNewEpisodes) :
          ep_info_buffer' = DequeExtend(ep_info_buffer, new, cfg.stats_window_size)
    /\ num_timesteps' = num_timesteps + cfg.n_steps * cfg.n_envs
    /\ iteration' = iteration + 1
    /\ pc' = "minibatch"
    /\ epoch' = 0
    /\ mb' = 0
    /\ continue_training' = TRUE
    /\ approx_kl_div' = <<>>
    /\ calls' = <<>>
    /\ n_updates_start' = n_updates
    /\ mb_count' = 0
    /\ UNCHANGED sample
    /\ UNCHANGED <<cfg, error, warned, policy_params, n_updates, anchor_policy,
                   anchor_policy_timestep, good_policies, previous_rewards,
                   td_counter, episodic_rewards, admitted>>

\* learn() returns once num_timesteps has reached total_timesteps.
Finish ==
    /\ pc = "collect"
    /\ ~(num_timesteps < cfg.total_timesteps)
    /\ pc' = "done"
    /\ UNCHANGED sample
    /\ UNCHANGED <<cfg, error, warned, num_timesteps, iteration, ep_info_buffer,
                   policy_params, n_updates, epoch, mb, continue_training,
                   approx_kl_div, anchor_policy, anchor_policy_timestep,
                   good_policies, previous_rewards, td_counter, episodic_rewards,
                   calls, admitted, n_updates_start, mb_count>>

\* ------------------------------------------------------ train(): update loop
\* The KL test with >= in place of >.
KlExceeds_inclusive(kl, tkl) == tkl # <<>> /\ 2 * kl >= 3 * tkl[1]

\* self.target_kl is not None and approx_kl_div > 1.5 * self.target_kl
KlExceeds(kl, tkl) == tkl # <<>> /\ 2 * kl > 3 * tkl[1]

\* A minibatch whose approximate KL exceeds the limit: continue_training is
\* cleared, the inner loop breaks before the optimizer step, the epoch is
\* counted and the outer loop breaks.
KlEarlyStop ==
    /\ pc = "minibatch"
    /\ \E kl \in KlChoices :
          /\ KlExceeds(kl, cfg.target_kl)
          /\ approx_kl_div' = <<kl>>
    /\ continue_training' = FALSE
    /\ n_updates' = n_updates + 1
    /\ mb_count' = mb_count + 1
    /\ calls' = Append(calls, "update")
    /\ pc' = "post_update"
    /\ UNCHANGED sample
    /\ UNCHANGED <<cfg, error, warned, num_timesteps, iteration, ep_info_buffer,
                   policy_params, epoch, mb, anchor_policy, anchor_policy_timestep,
                   good_policies, previous_rewards, td_counter, episodic_rewards,
                   admitted, n_updates_start>>

\* A minibatch that passes the KL test: one optimizer step on the live policy;
\* at the end of the pass the epoch is counted, and after the last epoch the
\* loop is left.
OptimizerStep ==
    /\ pc = "minibatch"
    /\ \E kl \in KlChoices :
          /\ ~KlExceeds(kl, cfg.target_kl)
          /\ approx_kl_div' = <<kl>>
    /\ policy_params' = policy_params + 1
    /\ mb_count' = mb_count + 1
    /\ IF mb + 1 < NumMinibatches(cfg)
       THEN /\ mb' = mb + 1
            /\ UNCHANGED <<epoch, n_updates, pc, calls>>
       ELSE /\ n_updates' = n_updates + 1
            /\ IF epoch + 1 < cfg.n_epochs
               THEN /\ epoch' = epoch + 1
                    /\ mb' = 0
                    /\ UNCHANGED <<pc, calls>>
               ELSE /\ pc' = "post_update"
                    /\ calls' = Append(calls, "update")
                    /\ UNCHANGED <<epoch, mb>>
    /\ UNCHANGED sample
    /\ UNCHANGED <<cfg, error, warned, num_timesteps, iteration, ep_info_buffer,
                   continue_training, anchor_policy, anchor_policy_timestep,
                   good_policies, previous_rewards, td_counter, episodic_rewards,
                   admitted, n_updates_start>>

\* --------------------------------------------------- task-change detection
\* self.num_timesteps // 1e6 != (self.num_timesteps - self.n_steps) // 1e6
BoundaryCrossed(nt, ns) == nt \div MILLION # (nt - ns) \div MILLION

\* detect_task_change without the early return on an empty previous_rewards.
detect_task_change_always(prev, nt, ns, gp, tdc, ap, apt) ==
    IF BoundaryCrossed(nt, ns)
    THEN IF gp = <<>>
         THEN [td_counter |-> tdc + 1, anchor_policy |-> ap,
               anchor_policy_timestep |-> apt, raised |-> "IndexError"]
         ELSE [td_counter |-> tdc + 1, anchor_policy |-> gp[1].policy,
               anchor_policy_timestep |-> gp[1].timestep, raised |-> "none"]
    ELSE [td_counter |-> tdc, anchor_policy |-> ap,
          anchor_policy_timestep |-> apt, raised |-> "none"]

\* detect_task_change taking the oldest record of the archive as the anchor.
detect_task_change_oldest(prev, nt, ns, gp, tdc, ap, apt) ==
    IF Len(prev) = 0
    THEN [td_counter |-> tdc, anchor_policy |-> ap,
          anchor_policy_timestep |-> apt, raised |-> "none"]
    ELSE IF BoundaryCrossed(nt, ns)
    THEN IF gp = <<>>
         THEN [td_counter |-> tdc + 1, anchor_policy |-> ap,
               anchor_policy_timestep |-> apt, raised |-> "IndexError"]
         ELSE [td_counter |-> tdc + 1, anchor_policy |-> gp[Len(gp)].policy,
               anchor_policy_timestep |-> gp[Len(gp)].timestep, raised |-> "none"]
    ELSE [td_counter |-> tdc, anchor_policy |-> ap,
          anchor_policy_timestep |-> apt, raised |-> "none"]

\* detect_task_change(current_rewards): the fields it leaves behind and the
\* exception it raises, if any.  The reward statistics it computes are only
\* printed.  On a trigger td_counter is incremented first; good_policies[0]
\* on an empty list then raises IndexError before any anchor field is assigned.
detect_task_change(prev, nt, ns, gp, tdc, ap, apt) ==
    IF Len(prev) = 0
    THEN [td_counter |-> tdc, anchor_policy |-> ap,
          anchor_policy_timestep |-> apt, raised |-> "none"]
    ELSE IF BoundaryCrossed(nt, ns)
    THEN IF gp = <<>>
         THEN [td_counter |-> tdc + 1, anchor_policy |-> ap,
               anchor_policy_timestep |-> apt, raised |-> "IndexError"]
         ELSE [td_counter |-> tdc + 1, anchor_policy |-> gp[1].policy,
               anchor_policy_timestep |-> gp[1].timestep, raised |-> "none"]
    ELSE [td_counter |-> tdc, anchor_policy |-> ap,
          anchor_policy_timestep |-> apt, raised |-> "none"]

\* ------------------------------------------------------ good-policy archive
\* Insert x into s, sorted by timestep descending, behind every record whose
\* timestep is at least x's (list.sort is stable).
RECURSIVE InsertByTimestepDesc(_, _)
InsertByTimestepDesc(x, s) ==
    IF s = <<>> THEN <<x>>
    ELSE IF Head(s).timestep >= x.timestep
         THEN <<Head(s)>> \o InsertByTimestepDesc(x, Tail(s))
         ELSE <<x>> \o s

\* good_policies.sort(key=lambda x: x[2], reverse=True)
RECURSIVE SortByTimestepDesc(_)
SortByTimestepDesc(s) ==
    IF s = <<>> THEN <<>>
    ELSE InsertByTimestepDesc(s[Len(s)], SortByTimestepDesc(SubSeq(s, 1, Len(s) - 1)))

\* The same sort on the reward field (x[1]).
RECURSIVE InsertByRewardDesc(_, _)
InsertByRewardDesc(x, s) ==
    IF s = <<>> THEN <<x>>
    ELSE IF Head(s).reward.sum * x.reward.n >= x.reward.sum * Head(s).reward.n
         THEN <<Head(s)>> \o InsertByRewardDesc(x, Tail(s))
         ELSE <<x>> \o s

RECURSIVE SortByRewardDesc(_)
SortByRewardDesc(s) ==
    IF s = <<>> THEN <<>>
    ELSE InsertByRewardDesc(s[Len(s)], SortByRewardDesc(SubSeq(s, 1, Len(s) - 1)))

\* update_good_policies keeping the k best-rewarded records.
update_good_policies_by_reward(gp, policy, reward, nt, task_change, thr, k) ==
    IF RewardGEq(reward, thr) \/ task_change
    THEN LET sorted == SortByRewardDesc(
                 Append(gp, [policy |-> policy, reward |-> reward, timestep |-> nt]))
         IN SubSeq(sorted, 1, Min(k, Len(sorted)))
    ELSE gp

\* update_good_policies admitting only rewards strictly above the threshold.
update_good_policies_strict(gp, policy, reward, nt, task_change, thr, k) ==
    IF (reward.sum > thr * reward.n) \/ task_change
    THEN LET sorted == SortByTimestepDesc(
                 Append(gp, [policy |-> policy, reward |-> reward, timestep |-> nt]))
         IN SubSeq(sorted, 1, Min(k, Len(sorted)))
    ELSE gp

\* update_good_policies(policy, reward, task_change): the new good_policies.
\* The tuple appended holds the policy object it was handed, not a copy.
update_good_policies(gp, policy, reward, nt, task_change, thr, k) ==
    IF RewardGEq(reward, thr) \/ task_change
    THEN LET sorted == SortByTimestepDesc(
                 Append(gp, [policy |-> policy, reward |-> reward, timestep |-> nt]))
         IN SubSeq(sorted, 1, Min(k, Len(sorted)))
    ELSE gp

\* ------------------------------------------- train(): after the update loop
\* The skip taken whatever the buffer holds.
SkipDetection_always ==
    /\ pc = "post_update"
    /\ pc' = "collect"
    /\ epoch' = 0
    /\ mb' = 0
    /\ continue_training' = TRUE
    /\ approx_kl_div' = <<>>
    /\ UNCHANGED sample
    /\ UNCHANGED <<cfg, error, warned, num_timesteps, iteration, ep_info_buffer,
                   policy_params, n_updates, anchor_policy, anchor_policy_timestep,
                   good_policies, previous_rewards, td_counter, episodic_rewards,
                   calls, admitted, n_updates_start, mb_count>>

\* len(self.ep_info_buffer) == 0: the whole task-change block is skipped and
\* train() returns.
SkipDetection ==
    /\ pc = "post_update"
    /\ Len(ep_info_buffer) = 0
    /\ pc' = "collect"
    /\ epoch' = 0
    /\ mb' = 0
    /\ continue_training' = TRUE
    /\ approx_kl_div' = <<>>
    /\ UNCHANGED sample
    /\ UNCHANGED <<cfg, error, warned, num_timesteps, iteration, ep_info_buffer,
                   policy_params, n_updates, anchor_policy, anchor_policy_timestep,
                   good_policies, previous_rewards, td_counter, episodic_rewards,
                   calls, admitted, n_updates_start, mb_count>>

\* The first half of the block: the mean of the buffered returns is pushed on
\* episodic_rewards and detect_task_change(current_rewards) is called.  An
\* exception it raises leaves train() and learn().
DetectStep ==
    /\ pc = "post_update"
    /\ Len(ep_info_buffer) # 0
    /\ episodic_rewards' =
          DequeAppend(episodic_rewards, Mean(ep_info_buffer), RewardGradWindow(cfg))
    /\ LET r == detect_task_change(previous_rewards, num_timesteps, cfg.n_steps,
                                   good_policies, td_counter, anchor_policy,
                                   anchor_policy_timestep)
       IN /\ td_counter' = r.td_counter
          /\ anchor_policy' = r.anchor_policy
          /\ anchor_policy_timestep' = r.anchor_policy_timestep
          /\ error' = r.raised
          /\ pc' = IF r.raised = "none" THEN "consider" ELSE "crashed"
    /\ calls' = Append(calls, "detect")
    /\ UNCHANGED sample
    /\ UNCHANGED <<cfg, warned, num_timesteps, iteration, ep_info_buffer,
                   policy_params, n_updates, epoch, mb, continue_training,
                   approx_kl_div, good_policies, previous_rewards, admitted,
                   n_updates_start, mb_count>>

\* The second half: previous_rewards = current_rewards, then
\* update_good_policies(self.policy, accumulated_rewards), and train() returns.
ConsiderStep ==
    /\ pc = "consider"
    /\ previous_rewards' = ep_info_buffer
    /\ good_policies' =
          update_good_policies(good_policies, LivePolicy, Mean(ep_info_buffer),
                               num_timesteps, FALSE, gp_threshold, cfg.gp_k)
    /\ admitted' =
          IF RewardGEq(Mean(ep_info_buffer), gp_threshold)
          THEN Append(admitted, [reward |-> Mean(ep_info_buffer),
                                 timestep |-> num_timesteps,
                                 params |-> policy_params])
          ELSE admitted
    /\ calls' = Append(calls, "consider")
    /\ pc' = "collect"
    /\ epoch' = 0
    /\ mb' = 0
    /\ continue_training' = TRUE
    /\ approx_kl_div' = <<>>
    /\ UNCHANGED sample
    /\ UNCHANGED <<cfg, error, warned, num_timesteps, iteration, ep_info_buffer,
                   policy_params, n_updates, anchor_policy, anchor_policy_timestep,
                   td_counter, episodic_rewards, n_updates_start, mb_count>>

Next ==
    \/ Construct
    \/ CollectRollouts
    \/ KlEarlyStop
    \/ OptimizerStep
    \/ SkipDetection
    \/ DetectStep
    \/ ConsiderStep
    \/ Finish

Spec == Init /\ [][Next]_vars

\* ------------------------------------------- train(): the per-sample loss
Max(a, b) == IF a > b THEN a ELSE b

\* th.clamp(x, lo, hi)
Clamp(x, lo, hi) == Min(Max(x, lo), hi)

\* The surrogate without the pessimistic minimum.
ClippedSurrogate_unclipped(r, A, eps) == A * r

\* th.min(policy_loss_1, policy_loss_2) for one sample, in hundredths:
\* policy_loss_1 = advantages * ratio,
\* policy_loss_2 = advantages * th.clamp(ratio, 1 - clip_range, 1 + clip_range).
ClippedSurrogate(r, A, eps) == Min(A * r, A * Clamp(r, 10 - eps, 10 + eps))

\* -th.min(policy_loss_1, policy_loss_2) + anchor_pol_kl_coef * anchor_policy_kl_div
PolicyLossTerm(r, A, eps, kl) == -ClippedSurrogate(r, A, eps) + anchor_pol_kl_coef * kl

\* The constructor arguments of the runs the loss is sampled in.
SampleConfig ==
    [n_steps |-> 500000, n_envs |-> 1, batch_size |-> 500000, n_epochs |-> 2,
     normalize_advantage |-> FALSE, target_kl |-> <<>>, gp_k |-> 2,
     has_env |-> TRUE, stats_window_size |-> 2, eps_length |-> 100000,
     total_timesteps |-> 2000000]

\* The first minibatch of the first iteration, one episode of return 0.7
\* behind it: no anchor is set.
SampleStateNoAnchor ==
    /\ num_timesteps = 500000
    /\ iteration = 1
    /\ policy_params = 0
    /\ n_updates = 0
    /\ n_updates_start = 0
    /\ anchor_policy = NoPolicy
    /\ anchor_policy_timestep = -1
    /\ good_policies = <<>>
    /\ previous_rewards = <<>>
    /\ td_counter = 0
    /\ episodic_rewards = <<>>
    /\ admitted = <<>>

\* The first minibatch of the third iteration of the same run, no further
\* episode ended: the trigger of the second iteration has set the anchor.
SampleStateAnchor ==
    /\ num_timesteps = 1500000
    /\ iteration = 3
    /\ policy_params = 4
    /\ n_updates = 4
    /\ n_updates_start = 4
    /\ anchor_policy = LivePolicy
    /\ anchor_policy_timestep = 500000
    /\ good_policies =
          <<[policy |-> LivePolicy, reward |-> Mean(<<7>>), timestep |-> 1000000],
            [policy |-> LivePolicy, reward |-> Mean(<<7>>), timestep |-> 500000]>>
    /\ previous_rewards = <<7>>
    /\ td_counter = 1
    /\ episodic_rewards = <<Mean(<<7>>), Mean(<<7>>)>>
    /\ admitted = <<[reward |-> Mean(<<7>>), timestep |-> 500000, params |-> 2],
                    [reward |-> Mean(<<7>>), timestep |-> 1000000, params |-> 4]>>

\* A sample of a minibatch about to enter the loss computation: the ratio, the
\* advantage and the clip range are drawn from their choices.
SampleInit ==
    /\ cfg = SampleConfig
    /\ pc = "policy_loss"
    /\ error = "none"
    /\ warned = FALSE
    /\ ep_info_buffer = <<7>>
    /\ epoch = 0
    /\ mb = 0
    /\ continue_training = TRUE
    /\ approx_kl_div = <<>>
    /\ calls = <<>>
    /\ mb_count = 0
    /\ SampleStateNoAnchor \/ SampleStateAnchor
    /\ ratio \in 0..MaxRatio
    /\ advantages \in AdvantageChoices
    /\ clip_range \in ClipRangeChoices
    /\ anchor_policy_kl_div = 0
    /\ policy_loss = <<>>

\* The loss of the sample: anchor_policy_kl_div stays th.tensor(0.0) without an
\* anchor and is the KL estimate against the anchor otherwise.
PolicyLossStep ==
    /\ pc = "policy_loss"
    /\ \E kl \in (IF anchor_policy = NoPolicy THEN {0} ELSE AnchorKlChoices) :
          /\ anchor_policy_kl_div' = kl
          /\ policy_loss' = <<PolicyLossTerm(ratio, advantages, clip_range, kl)>>
    /\ pc' = "policy_loss_done"
    /\ UNCHANGED <<cfg, error, warned, num_timesteps, iteration, ep_info_buffer,
                   policy_params, n_updates, epoch, mb, continue_training,
                   approx_kl_div, anchor_policy, anchor_policy_timestep,
                   good_policies, previous_rewards, td_counter, episodic_rewards,
                   calls, admitted, n_updates_start, mb_count, ratio, advantages,
                   clip_range>>

SampleNext == PolicyLossStep

SpecSample == SampleInit /\ [][SampleNext]_vars

\* =================================================================== claims
Reverse(s) == [i \in 1..Len(s) |-> s[Len(s) + 1 - i]]

FullIteration == <<"update", "detect", "consider">>

\* The history entry of the admission that created archive record r.
AdmissionOf(r) == CHOOSE a \in {admitted[j] : j \in DOMAIN admitted} :
                      a.timestep = r.timestep

\* C1: every archive record holds its own copy of the parameters as they were
\* when it was admitted: it shares storage neither with the live policy nor
\* with another record, and the parameters seen through it are still those of
\* its admission however many gradient steps the live policy has taken since.
C1_SnapshotsIndependent ==
    \A i \in DOMAIN good_policies :
        /\ good_policies[i].policy # LivePolicy
        /\ \A j \in DOMAIN good_policies :
              j # i => good_policies[j].policy # good_policies[i].policy
        /\ Heap[good_policies[i].policy] = AdmissionOf(good_policies[i]).params

\* C2: a detector call whose trigger fires while the archive is empty raises
\* nothing, leaves the anchor absent with timestep -1, and the iteration goes
\* on to the archive step.
C2_EmptyArchiveTriggerSilent ==
    ( /\ calls = <<"update", "detect">>
      /\ Len(previous_rewards) # 0
      /\ num_timesteps \div 1000000 # (num_timesteps - cfg.n_steps) \div 1000000
      /\ good_policies = <<>> )
    => ( /\ error = "none"
         /\ pc = "consider"
         /\ anchor_policy = NoPolicy
         /\ anchor_policy_timestep = -1 )

\* C3 (as stated): on every detector invocation td_counter goes up by exactly 1
\* if the two floors differ and stays as it is otherwise, whatever
\* previous_rewards holds; no other step changes it.
C3_TriggerByFloorsAlone ==
    [][ IF pc = "post_update" /\ Len(ep_info_buffer) # 0
        THEN td_counter' = td_counter +
                 (IF num_timesteps \div 1000000
                       # (num_timesteps - cfg.n_steps) \div 1000000
                  THEN 1 ELSE 0)
        ELSE td_counter' = td_counter ]_vars

\* C3 (amended): on every detector invocation td_counter goes up by exactly 1
\* if previous_rewards is non-empty and the two floors differ, and stays as it
\* is otherwise; no other step changes it, so it never decreases.
C3_TriggerRule ==
    [][ IF pc = "post_update" /\ Len(ep_info_buffer) # 0
        THEN td_counter' = td_counter +
                 (IF /\ Len(previous_rewards) # 0
                     /\ num_timesteps \div 1000000
                           # (num_timesteps - cfg.n_steps) \div 1000000
                  THEN 1 ELSE 0)
        ELSE td_counter' = td_counter ]_vars

\* A detector call inside the band of an earlier trigger has just returned
\* without triggering again.
C3_Witness ==
    /\ pc = "consider"
    /\ td_counter = 1
    /\ Len(previous_rewards) # 0
    /\ num_timesteps \div 1000000 = (num_timesteps - cfg.n_steps) \div 1000000
    /\ num_timesteps > 1000000

\* C4: the archive never holds more than gp_k records, is sorted by timestep
\* strictly descending, and is exactly the min(gp_k, n) most recently admitted
\* of the n records admitted so far.
C4_ArchiveIsMostRecent ==
    LET n == Len(admitted)
        recent == SubSeq(Reverse(admitted), 1, Min(cfg.gp_k, n))
    IN /\ Len(good_policies) <= cfg.gp_k
       /\ \A i \in 1..(Len(good_policies) - 1) :
             good_policies[i].timestep > good_policies[i + 1].timestep
       /\ Len(good_policies) = Len(recent)
       /\ \A i \in DOMAIN good_policies :
             /\ good_policies[i].timestep = recent[i].timestep
             /\ good_policies[i].reward = recent[i].reward

\* Three policies have been admitted with room for two: the oldest admitted
\* record has been evicted.
C4_Witness ==
    /\ pc = "collect"
    /\ iteration >= 3
    /\ cfg.gp_k = 2
    /\ Len(admitted) = 3
    /\ Len(good_policies) = 2
    /\ good_policies[1].timestep = num_timesteps

\* C5: when the trigger fires on a non-empty archive the anchor becomes the
\* policy and the timestep of archive[0], the record with the largest
\* timestep, which is strictly smaller than the current num_timesteps.
C5_AnchorIsNewestRecord ==
    [][ ( /\ pc = "post_update"
          /\ td_counter' = td_counter + 1
          /\ good_policies # <<>> )
        => ( /\ error' = "none"
             /\ anchor_policy' = good_policies[1].policy
             /\ anchor_policy_timestep' = good_policies[1].timestep
             /\ \A i \in DOMAIN good_policies :
                   good_policies[i].timestep <= anchor_policy_timestep'
             /\ anchor_policy_timestep' < num_timesteps' ) ]_vars

\* The trigger has just set the anchor to the newest record although an older
\* record of the archive has the higher mean reward.
C5_Witness ==
    /\ pc = "consider"
    /\ td_counter >= 1
    /\ num_timesteps \div 1000000 # (num_timesteps - cfg.n_steps) \div 1000000
    /\ Len(good_policies) = 2
    /\ anchor_policy_timestep = good_policies[1].timestep
    /\ good_policies[2].reward.sum * good_policies[1].reward.n
          > good_policies[1].reward.sum * good_policies[2].reward.n

\* The parameters seen through the anchor, None while no anchor is set.
AnchorParams == IF anchor_policy = NoPolicy THEN <<>> ELSE <<Heap[anchor_policy]>>

\* C6: no minibatch step of the update loop changes the parameters seen
\* through the anchor, nor the anchor timestep.
C6_UpdateLeavesAnchorAlone ==
    [][ pc = "minibatch"
        => ( /\ AnchorParams' = AnchorParams
             /\ anchor_policy_timestep' = anchor_policy_timestep ) ]_vars

\* C7 (as stated): every iteration, whether or not an episode return is
\* available, runs update, then detect, then consider, each exactly once.
C7_ConsiderEveryIteration ==
    (pc \in {"collect", "done", "crashed"} /\ iteration > 0)
    => calls = FullIteration

\* C7 (amended): the steps of an iteration are a prefix of update, detect,
\* consider.  An iteration that ends with a non-empty ep_info_buffer has run
\* all three, each once; one that ends with an empty ep_info_buffer has run
\* the update alone; a detector call that raised has ended the run before
\* consider.
C7_OrderAndGuard ==
    /\ \E k \in 0..3 : calls = SubSeq(FullIteration, 1, k)
    /\ (pc \in {"collect", "done"} /\ iteration > 0)
       => calls = IF Len(ep_info_buffer) # 0 THEN FullIteration ELSE <<"update">>
    /\ pc = "crashed" => calls = <<"update", "detect">>

\* An iteration with episode returns has ended after update, detect, consider.
C7_Witness ==
    /\ pc = "collect"
    /\ iteration > 0
    /\ Len(ep_info_buffer) # 0
    /\ calls = FullIteration

\* C8: when the update loop has ended, without target_kl every epoch has run
\* over every minibatch and n_epochs epochs are counted; with target_kl the
\* loop stopped early exactly if the last minibatch evaluated had a KL above
\* 1.5 * target_kl, that minibatch (number mb of epoch `epoch`) is the last one
\* evaluated, and epoch + 1 epochs are counted.  While the loop runs, no
\* minibatch evaluated so far was above the limit.
C8_KlSoftStop ==
    LET over == /\ cfg.target_kl # <<>>
                /\ approx_kl_div # <<>>
                /\ 2 * approx_kl_div[1] > 3 * cfg.target_kl[1]
        counted == n_updates - n_updates_start
    IN /\ pc = "minibatch" => ~over /\ continue_training
       /\ pc = "post_update" =>
             /\ error = "none"
             /\ continue_training = ~over
             /\ cfg.target_kl = <<>> => continue_training
             /\ IF continue_training
                THEN /\ counted = cfg.n_epochs
                     /\ mb_count = cfg.n_epochs * NumMinibatches(cfg)
                ELSE /\ counted = epoch + 1
                     /\ mb_count = epoch * NumMinibatches(cfg) + mb + 1

\* The loop stopped on the second minibatch of the second epoch.
C8_Witness ==
    /\ pc = "post_update"
    /\ ~continue_training
    /\ epoch = 1
    /\ mb = 1
    /\ n_updates - n_updates_start = 2

\* C9: a consider call whose mean reward is at least gp_threshold puts its
\* record at the head of the archive, a call whose mean reward is below it
\* leaves the archive unchanged, and every record of the archive has a mean
\* reward of at least gp_threshold.
C9_AdmissionByThreshold ==
    /\ [][ pc = "consider"
           => LET m == Mean(ep_info_buffer)
              IN IF m.sum >= gp_threshold * m.n
                 THEN /\ good_policies' # <<>>
                      /\ good_policies'[1] =
                            [policy |-> LivePolicy, reward |-> m,
                             timestep |-> num_timesteps]
                 ELSE good_policies' = good_policies ]_vars
    /\ [](\A i \in DOMAIN good_policies :
             good_policies[i].reward.sum >= gp_threshold * good_policies[i].reward.n)

\* A policy whose mean reward equals the threshold has just been admitted.
C9_Witness ==
    /\ pc = "collect"
    /\ calls = FullIteration
    /\ good_policies # <<>>
    /\ good_policies[1].timestep = num_timesteps
    /\ good_policies[1].reward.sum = gp_threshold * good_policies[1].reward.n

BufferSize == cfg.n_steps * cfg.n_envs

\* C10 (as stated): construction is rejected when advantage normalization is
\* on and batch_size <= 1, and whenever n_steps * n_envs <= 1; a buffer size
\* that is no multiple of batch_size only warns.
C10_RejectsSmallBuffer ==
    pc # "new" =>
        /\ (cfg.normalize_advantage /\ cfg.batch_size <= 1) => pc = "rejected"
        /\ (cfg.has_env /\ BufferSize <= 1) => pc = "rejected"
        /\ (cfg.has_env /\ BufferSize > 1 /\ cfg.batch_size > 1
              /\ BufferSize % cfg.batch_size # 0) => (warned /\ pc # "rejected")

\* C10 (amended): with an environment given, construction is rejected exactly
\* when advantage normalization is on and batch_size <= 1 or n_steps * n_envs
\* <= 1; it is rejected before any training iteration; with normalization off
\* any batch_size and buffer size are accepted; and an accepted configuration
\* warns exactly when the buffer size is no multiple of batch_size.
C10_FailFast ==
    pc # "new" =>
        /\ pc = "rejected"
              <=> \/ cfg.normalize_advantage /\ cfg.batch_size <= 1
                  \/ cfg.has_env /\ cfg.normalize_advantage /\ BufferSize <= 1
        /\ pc = "rejected" =>
              error # "none" /\ iteration = 0 /\ num_timesteps = 0 /\ ~warned
        /\ pc # "rejected" =>
              (warned <=> cfg.has_env /\ BufferSize % cfg.batch_size # 0)

\* Construction has been rejected by the buffer-size assertion.
C10_Witness ==
    /\ pc = "rejected"
    /\ cfg.normalize_advantage
    /\ cfg.batch_size > 1
    /\ BufferSize <= 1

\* The surrogate of the sample as the computed loss shows it, in hundredths.
Surrogate == anchor_pol_kl_coef * anchor_policy_kl_div - policy_loss[1]

\* The clip of the ratio to the band around 1, in tenths.
ClippedRatio ==
    IF ratio < 10 - clip_range THEN 10 - clip_range
    ELSE IF ratio > 10 + clip_range THEN 10 + clip_range
    ELSE ratio

\* C11: the per-sample clipped surrogate is the smaller of r*A and
\* clip(r, 1-eps, 1+eps)*A: it is r*A whenever |r - 1| <= eps and never above
\* clip(r, 1-eps, 1+eps)*A; without an anchor the policy-loss term is its
\* negation; eps = 0.2, r = 1.5, A = 1 gives -1.2.
C11_ClippedSurrogate ==
    pc = "policy_loss_done" =>
        /\ Surrogate \in {ratio * advantages, ClippedRatio * advantages}
        /\ Surrogate <= ratio * advantages
        /\ Surrogate <= ClippedRatio * advantages
        /\ (ratio - 10 <= clip_range /\ 10 - ratio <= clip_range)
              => Surrogate = ratio * advantages
        /\ anchor_policy = NoPolicy
              => (anchor_policy_kl_div = 0 /\ policy_loss[1] = -Surrogate)
        /\ (anchor_policy = NoPolicy /\ clip_range = 2 /\ ratio = 15
              /\ advantages = 10) => policy_loss[1] = -120

\* The loss of the sample r = 1.5, A = 1, eps = 0.2 without an anchor is -1.2.
C11_Witness ==
    /\ pc = "policy_loss_done"
    /\ anchor_policy = NoPolicy
    /\ clip_range = 2
    /\ ratio = 15
    /\ advantages = 10
    /\ policy_loss = <<-120>>

\* C12: once a detector invocation is over, whether it triggered or not,
\* previous_rewards is the list of episode returns it was handed, the mean of
\* that list is the newest entry of the reward history, and the history is no
\* longer than its window.
C12_DetectorBookkeeping ==
    (pc = "crashed" \/ (pc \in {"collect", "done"} /\ calls = FullIteration))
    => ( /\ previous_rewards = ep_info_buffer
         /\ episodic_rewards # <<>>
         /\ episodic_rewards[Len(episodic_rewards)] = Mean(ep_info_buffer)
         /\ Len(episodic_rewards) <= RewardGradWindow(cfg) )

\* C13: whatever n_envs is, a detector call that evaluates the floor
\* comparison declares a task change exactly if num_timesteps crossed a
\* multiple of 1,000,000 during the iteration, which advanced it by
\* n_steps * n_envs.
C13_TriggerIffBoundaryCrossed ==
    [][ ( /\ pc = "post_update"
          /\ Len(ep_info_buffer) # 0
          /\ Len(previous_rewards) # 0 )
        => ( td_counter' = td_counter + 1
             <=> num_timesteps \div 1000000
                    # (num_timesteps - cfg.n_steps * cfg.n_envs) \div 1000000 ) ]_vars

====
